---------------------------- MODULE Spec2Model ----------------------------
(***************************************************************************)
(* Model of src/Git_Practice.py: the news collector (fetch_news and its    *)
(* helpers), the retrying transport (make_session, get_html) and the run   *)
(* block that drives them.                                                 *)
(*                                                                         *)
(* Strings are sequences of symbols.  For labels, titles and snippets a    *)
(* symbol is one character (the Korean characters are written by name:     *)
(* "bun", "si", "gan", "jeon", "il").  For URLs a symbol is either one     *)
(* delimiter character (":", "/", "?", "#", "&", "=", ".", "[") or a word:    *)
(* a maximal run of characters that holds no delimiter, no "%" and no "+".   *)
(***************************************************************************)
EXTENDS Integers, Sequences, FiniteSets, TLC

VARIABLES
    pc,               \* position of the control flow
    session,          \* the requests.Session of the run: "none", "open", "closed"
    resp,             \* the response r of the current attempt: "none", "open", "closed"
    leaked,           \* responses that were replaced or dropped while still open
    warm,             \* outcome of the warm-up request of make_session
    queue,            \* the queries of the run still to be fetched, in order
    query,            \* the query fetch_news is working on
    attempt,          \* get_html's loop variable
    outcome,          \* what the current attempt's session.get did
    slept,            \* the exponents k of the time.sleep(base^k) calls of this get_html call
    html,             \* what get_html returned: None or the document
    doc,              \* the parsed document: its nodes in next_elements order
    max_n,            \* fetch_news's cap
    include_query_col,
    si,               \* index into Spans(doc) of the marker the loop is at
    rows,             \* fetch_news's rows
    seen_titles,
    seen_links,
    emitted,          \* history: the marker index each row came from
    results,          \* history: one record per finished fetch_news call
    raised,           \* the exception propagating out of the run block: "no", "transport"
                      \* (one of session.get, out of get_html) or "unexpected"
    link,             \* a URL string handed to normalize_link
    keys              \* the results of normalize_link applied to link, then to its own result

vars == <<pc, session, resp, leaked, warm, queue, query, attempt, outcome, slept, html,
          doc, max_n, include_query_col, si, rows, seen_titles, seen_links,
          emitted, results, raised, link, keys>>

None == "None"

-----------------------------------------------------------------------------
(* Sequences as strings *)

Range(s) == {s[i] : i \in 1..Len(s)}

\* s[a-1:b] of Python: the symbols at positions a..b that exist
Slice(s, a, b) ==
    LET lo == IF a < 1 THEN 1 ELSE a
        hi == IF b > Len(s) THEN Len(s) ELSE b
    IN  IF lo > hi THEN <<>> ELSE SubSeq(s, lo, hi)

\* str.find: the first index of symbol c in s, 0 when absent
Find(s, c) == IF c \in Range(s) THEN CHOOSE i \in 1..Len(s) : s[i] = c /\ \A j \in 1..(i-1) : s[j] # c
              ELSE 0

\* the first index of a symbol of set cs in s, Len(s)+1 when absent
FindAny(s, cs) == IF \E i \in 1..Len(s) : s[i] \in cs
                  THEN CHOOSE i \in 1..Len(s) : s[i] \in cs /\ \A j \in 1..(i-1) : s[j] \notin cs
                  ELSE Len(s) + 1

EndsWith(s, suf) == Len(s) >= Len(suf) /\ Slice(s, Len(s) - Len(suf) + 1, Len(s)) = suf

RECURSIVE RStrip(_, _)
\* str.rstrip(chars)
RStrip(s, cs) == IF s # <<>> /\ s[Len(s)] \in cs THEN RStrip(Slice(s, 1, Len(s) - 1), cs) ELSE s

RECURSIVE LStrip(_, _)
LStrip(s, cs) == IF s # <<>> /\ s[1] \in cs THEN LStrip(Tail(s), cs) ELSE s

\* the whitespace characters of the model: space and tab
WS == {" ", "tab"}

\* str.strip()
Strip(s) == LStrip(RStrip(s, WS), WS)

RECURSIVE SplitWs(_)
\* the first run of t, which starts with none of WS and ends before e, then the rest
SplitWsAt(t, e) == <<Slice(t, 1, e - 1)>> \o SplitWs(Slice(t, e, Len(t)))

SplitWsRun(t) == IF t = <<>> THEN <<>> ELSE SplitWsAt(t, FindAny(t, WS))

\* str.split(): the maximal runs of non-whitespace characters
SplitWs(s) == SplitWsRun(LStrip(s, WS))

RECURSIVE Join(_, _)
\* sep.join(parts)
Join(sep, parts) ==
    IF parts = <<>> THEN <<>>
    ELSE IF Len(parts) = 1 THEN parts[1]
    ELSE parts[1] \o sep \o Join(sep, Tail(parts))

RECURSIVE SplitOn(_, _)
SplitOnAt(s, c, i) ==
    IF i = 0 THEN <<s>> ELSE <<Slice(s, 1, i - 1)>> \o SplitOn(Slice(s, i + 1, Len(s)), c)

\* str.split(c): the pieces between occurrences of symbol c (at least one piece)
SplitOn(s, c) == SplitOnAt(s, c, Find(s, c))

\* str.casefold / str.lower on one symbol: the upper-case letters of the model
LowerSym(c) ==
    CASE c = "A" -> "a" [] c = "B" -> "b" [] c = "C" -> "c"
      [] c = "HTTPS" -> "https" [] c = "HTTP" -> "http" [] c = "Ex" -> "ex"
      [] c = "News" -> "news"
      [] OTHER -> c

Lower(s) == [i \in 1..Len(s) |-> LowerSym(s[i])]

-----------------------------------------------------------------------------
(* normalize_title *)

normalize_title(t) == Join(<<" ">>, SplitWs(Lower(t)))

-----------------------------------------------------------------------------
(* parse_relative_allowed *)

Digits == {"0", "1", "2", "3", "4", "5", "6", "7", "8", "9"}

\* a minute pattern that lets the leading digit run to 6: ([1-9]|[1-6][0-9])
MinuteReTo69(d) ==
    \/ Len(d) = 1 /\ d[1] \in Digits \ {"0"}
    \/ Len(d) = 2 /\ d[1] \in {"1", "2", "3", "4", "5", "6"} /\ d[2] \in Digits

\* ([1-9]|[1-5][0-9])
MinuteRe(d) ==
    \/ Len(d) = 1 /\ d[1] \in Digits \ {"0"}
    \/ Len(d) = 2 /\ d[1] \in {"1", "2", "3", "4", "5"} /\ d[2] \in Digits

\* ([1-9]|1[0-9]|2[0-3])
HourRe(d) ==
    \/ Len(d) = 1 /\ d[1] \in Digits \ {"0"}
    \/ Len(d) = 2 /\ d[1] = "1" /\ d[2] \in Digits
    \/ Len(d) = 2 /\ d[1] = "2" /\ d[2] \in {"0", "1", "2", "3"}

\* \s*
WsRe(w) == \A i \in 1..Len(w) : w[i] \in WS

\* the rest of a pattern after its number group, which took the first a characters
\* of t: \s* unit \s* jeon, up to the end of t
RestMatch(t, a, unit) ==
    \E b \in a..Len(t) :
        /\ b + Len(unit) < Len(t)
        /\ WsRe(Slice(t, a + 1, b))
        /\ Slice(t, b + 1, b + Len(unit)) = unit
        /\ WsRe(Slice(t, b + Len(unit) + 1, Len(t) - 1))
        /\ t[Len(t)] = "jeon"

\* re.fullmatch(r"([1-9]|[1-5][0-9])\s*bun\s*jeon", t)
FullMatchMinutes(t) ==
    \E a \in 1..2 : MinuteRe(Slice(t, 1, a)) /\ RestMatch(t, a, <<"bun">>)

\* re.fullmatch(r"([1-9]|1[0-9]|2[0-3])\s*sigan\s*jeon", t)
FullMatchHours(t) ==
    \E a \in 1..2 : HourRe(Slice(t, 1, a)) /\ RestMatch(t, a, <<"si", "gan">>)

FullMatchEither(t) == FullMatchMinutes(t) \/ FullMatchHours(t)

parse_relative_allowed(text) == FullMatchEither(Strip(text))

-----------------------------------------------------------------------------
(* normalize_link, with the parts of urllib.parse it calls *)

TRACKING_PARAMS == {"utm_source", "utm_medium", "utm_campaign", "utm_term", "utm_content",
                    "utm_name", "gclid", "fbclid", "igshid", "utm_id", "utm_referrer",
                    "ref", "sns", "spm", "cmpid"}

Delims == {":", "/", "?", "#", "&", "=", ".", "["}

\* urllib's uses_netloc, as far as the schemes of the model go
UsesNetloc == {<<>>, <<"http">>, <<"https">>}

\* urlsplit's scheme test, i the place of the first ":": a ":" not at the start, before
\* it only scheme characters (letters, digits, "+", "-", "."), the first of them a letter
HasScheme(url, i) ==
    /\ i > 1
    /\ \A j \in 1..(i-1) : url[j] \notin (Delims \ {"."})
    /\ url[1] \notin Delims \cup Digits

\* urlsplit from the "?" on: u holds neither netloc nor fragment, q is the place of "?"
SplitQuery(scheme, netloc, error, u, q) ==
    [error  |-> error,
     scheme |-> scheme,
     netloc |-> netloc,
     path   |-> IF q > 0 THEN Slice(u, 1, q - 1) ELSE u,
     query  |-> IF q > 0 THEN Slice(u, q + 1, Len(u)) ELSE <<>>]

\* the fragment is cut off at f, the place of the first "#"
SplitFragment(scheme, netloc, error, u, f) ==
    IF f > 0 THEN SplitQuery(scheme, netloc, error, Slice(u, 1, f - 1),
                             Find(Slice(u, 1, f - 1), "?"))
    ELSE SplitQuery(scheme, netloc, error, u, Find(u, "?"))

\* the netloc of u, which follows "//" and ends before e; the ValueError urlsplit
\* raises for a netloc with an unmatched bracket is error
SplitNetlocAt(scheme, u, e) ==
    SplitFragment(scheme, Slice(u, 1, e - 1), "[" \in Range(Slice(u, 1, e - 1)),
                  Slice(u, e, Len(u)), Find(Slice(u, e, Len(u)), "#"))

SplitNetloc(scheme, u) ==
    IF Len(u) >= 2 /\ u[1] = "/" /\ u[2] = "/"
    THEN SplitNetlocAt(scheme, Slice(u, 3, Len(u)), FindAny(Slice(u, 3, Len(u)), {"/", "?", "#"}))
    ELSE SplitFragment(scheme, <<>>, FALSE, u, Find(u, "#"))

SplitScheme(url, i) ==
    IF HasScheme(url, i) THEN SplitNetloc(Lower(Slice(url, 1, i - 1)), Slice(url, i + 1, Len(url)))
    ELSE SplitNetloc(<<>>, url)

\* urlparse(url): the record of scheme, netloc, path, query (the inputs hold no ";")
urlparse(url) == SplitScheme(url, Find(url, ":"))

QsPairAt(piece, keep_blank_values, i) ==
    IF piece = <<>> THEN <<>>
    ELSE IF i = 0 THEN (IF keep_blank_values THEN <<piece, <<>> >> ELSE <<>>)
    ELSE IF i < Len(piece) \/ keep_blank_values
         THEN <<Slice(piece, 1, i - 1), Slice(piece, i + 1, Len(piece))>>
    ELSE <<>>

\* one name=value piece of a query string as parse_qsl reads it: <<name, value>>,
\* or <<>> for a piece it skips
QsPair(piece, keep_blank_values) == QsPairAt(piece, keep_blank_values, Find(piece, "="))

\* the items with value v added to the values of name
QsAdd(acc, name, v) ==
    IF \E k \in 1..Len(acc) : acc[k][1] = name
    THEN [k \in 1..Len(acc) |->
             IF acc[k][1] = name THEN <<acc[k][1], Append(acc[k][2], v)>> ELSE acc[k]]
    ELSE Append(acc, <<name, <<v>> >>)

RECURSIVE QsGroup(_, _)
\* parse_qs's dict, as the sequence of its items <<name, values>> in insertion order
QsGroup(pairs, acc) ==
    IF pairs = <<>> THEN acc
    ELSE IF pairs[1] = <<>> THEN QsGroup(Tail(pairs), acc)
    ELSE QsGroup(Tail(pairs), QsAdd(acc, pairs[1][1], pairs[1][2]))

QsPieces(pieces, keep_blank_values) ==
    QsGroup([k \in 1..Len(pieces) |-> QsPair(pieces[k], keep_blank_values)], <<>>)

parse_qs(qstr, keep_blank_values) == QsPieces(SplitOn(qstr, "&"), keep_blank_values)

\* dict.get(name, [None])[0], with <<>> for None
QsGet(qs, name) ==
    IF \E k \in 1..Len(qs) : qs[k][1] = name
    THEN qs[CHOOSE k \in 1..Len(qs) : qs[k][1] = name][2][1]
    ELSE <<>>

\* the order of Python's str on the one-character words of the model
SymRank(c) ==
    CASE c = "1" -> 1 [] c = "2" -> 2 [] c = "5" -> 3 [] c = "a" -> 4 [] c = "b" -> 5
      [] c = "x" -> 6 [] OTHER -> 7

RECURSIVE StrLess(_, _)
\* v < w for Python strings
StrLess(v, w) ==
    IF w = <<>> THEN FALSE
    ELSE IF v = <<>> THEN TRUE
    ELSE IF v[1] = w[1] THEN StrLess(Tail(v), Tail(w))
    ELSE SymRank(v[1]) < SymRank(w[1])

RECURSIVE Insert(_, _)
Insert(sorted, v) ==
    IF sorted = <<>> THEN <<v>>
    ELSE IF StrLess(v, sorted[1]) THEN <<v>> \o sorted
    ELSE <<sorted[1]>> \o Insert(Tail(sorted), v)

RECURSIVE Sorted(_)
\* sorted(v) for a list of strings (stable)
Sorted(vs) == IF vs = <<>> THEN <<>> ELSE Insert(Sorted(Slice(vs, 1, Len(vs) - 1)), vs[Len(vs)])

\* the name=value items of one key
EncodeItem(name, vals) == Join(<<"&">>, [k \in 1..Len(vals) |-> name \o <<"=">> \o vals[k]])

RECURSIVE urlencode(_)
\* urlencode(qs, doseq=True) on words, which quote_plus leaves as they are
urlencode(qs) ==
    IF qs = <<>> THEN <<>>
    ELSE IF Len(qs) = 1 THEN EncodeItem(qs[1][1], qs[1][2])
    ELSE EncodeItem(qs[1][1], qs[1][2]) \o <<"&">> \o urlencode(Tail(qs))

\* urlunsplit's netloc step
UnsplitNetloc(scheme, netloc, path) ==
    IF netloc # <<>>
       \/ (scheme # <<>> /\ scheme \in UsesNetloc /\ Slice(path, 1, 2) # <<"/", "/">>)
    THEN <<"/", "/">> \o netloc
         \o (IF path # <<>> /\ path[1] # "/" THEN <<"/">> \o path ELSE path)
    ELSE path

\* urlunparse((scheme, netloc, path, "", query, ""))
urlunparse(scheme, netloc, path, qstr) ==
    (IF scheme # <<>> THEN scheme \o <<":">> ELSE <<>>)
    \o UnsplitNetloc(scheme, netloc, path)
    \o (IF qstr # <<>> THEN <<"?">> \o qstr ELSE <<>>)

\* the article host's suffix, news.naver.com
ArticleHost == <<"news", ".", "naver", ".", "com">>

\* the item is one of a tracking parameter
IsTracking(it) == Len(it[1]) = 1 /\ it[1][1] \in TRACKING_PARAMS

SortValues(kept) == [k \in 1..Len(kept) |-> <<kept[k][1], Sorted(kept[k][2])>>]

\* the tracking parameters dropped, every other key kept with its values sorted
QsClean(qs) == SortValues(SelectSeq(qs, LAMBDA it : ~IsTracking(it)))

\* the key of an article-host URL
ArticleKey(netloc, path, oid, aid) ==
    IF oid # <<>> /\ aid # <<>>
    THEN <<"naver", ":", "oid", "=">> \o oid \o <<"&", "aid", "=">> \o aid
    ELSE netloc \o RStrip(path, {"/"})

ArticleKeyOf(netloc, path, qs) == ArticleKey(netloc, path, QsGet(qs, <<"oid">>), QsGet(qs, <<"aid">>))

\* new_path = p.path.rstrip("/") or "/"
NewPath(stripped) == IF stripped # <<>> THEN stripped ELSE <<"/">>

\* normalize_link after urlparse gave p; its ValueError returns url as it is
NormalizeParsed(url, p, netloc) ==
    IF p.error THEN url
    ELSE IF EndsWith(netloc, ArticleHost)
         THEN ArticleKeyOf(netloc, p.path, parse_qs(p.query, FALSE))
    ELSE urlunparse(IF p.scheme # <<>> THEN p.scheme ELSE <<"https">>, netloc,
                    NewPath(RStrip(p.path, {"/"})),
                    urlencode(QsClean(parse_qs(p.query, TRUE))))

NormalizeParse(url, p) == NormalizeParsed(url, p, Lower(p.netloc))

normalize_link(url) == IF url = <<>> THEN <<>> ELSE NormalizeParse(url, urlparse(url))

-----------------------------------------------------------------------------
(* The parsed document.  doc is the sequence of its nodes in document order, *)
(* the order of BeautifulSoup's next_elements.  An entry is an element, with *)
(* size the number of entries after it that are its descendants, or a run of *)
(* n equal text nodes.                                                       *)

TIME_SPAN_CLASS == {"sds-comps-text", "sds-comps-text-type-body2", "sds-comps-text-weight-sm"}
SNIPPET_CLASSES == {"sds-comps-text-ellipsis", "sds-comps-text-type-body2"}

\* the steps extract_card_from_time_span walks at most, in each of its two loops
WALK_STEPS == 200
\* the least length of a snippet
SNIPPET_MIN_LEN == 10

El(name, class, target, href, size) ==
    [kind |-> "el", name |-> name, class |-> class, target |-> target, href |-> href,
     size |-> size, text |-> <<>>, n |-> 1]

Text(text, n) ==
    [kind |-> "text", name |-> "", class |-> {}, target |-> "", href |-> <<>>,
     size |-> 0, text |-> text, n |-> n]

has_classes(tag, classes) == tag.kind = "el" /\ tag.class # {} /\ classes \subseteq tag.class

RECURSIVE Pieces(_, _, _)
\* the n copies of the stripped string t, none when it is empty
Copies(t, n) == IF t = <<>> THEN <<>> ELSE [k \in 1..n |-> t]

\* the stripped, non-empty strings of entries j..hi of d, in order
Pieces(d, j, hi) ==
    IF j > hi THEN <<>>
    ELSE IF d[j].kind = "text" THEN Copies(Strip(d[j].text), d[j].n) \o Pieces(d, j + 1, hi)
    ELSE Pieces(d, j + 1, hi)

\* tag.get_text(sep, strip=True) for the element at entry i of d
get_text(d, i, sep) == Join(sep, Pieces(d, i + 1, i + d[i].size))

\* soup.find_all("span", class_=lambda x: x) filtered by has_classes(s, TIME_SPAN_CLASS):
\* the entries of the timestamp markers, in document order
Spans(d) == SelectSeq([j \in 1..Len(d) |-> j],
                      LAMBDA j : d[j].name = "span" /\ has_classes(d[j], TIME_SPAN_CLASS))

RECURSIVE FindAnchor(_, _, _)
\* the first loop of extract_card_from_time_span from entry j with `steps` steps taken:
\* the entry of the title anchor, 0 when the walk ends without one
FindAnchor(d, j, steps) ==
    IF j > Len(d) THEN 0
    ELSE IF d[j].kind = "text"
         THEN IF steps + d[j].n > WALK_STEPS THEN 0 ELSE FindAnchor(d, j + 1, steps + d[j].n)
    ELSE IF steps + 1 > WALK_STEPS THEN 0
    ELSE IF d[j].name = "a" /\ d[j].target = ".tit" THEN j
    ELSE FindAnchor(d, j + 1, steps + 1)

\* a class test that asks for every snippet class: all(c in e["class"] ...)
SnippetClassAll(class) == SNIPPET_CLASSES \subseteq class

\* the class test of the snippet loop: any(c in e["class"] for c in SNIPPET_CLASSES)
SnippetClassTest(class) == class \cap SNIPPET_CLASSES # {}

\* the text test of the snippet loop: txt and txt != title and len(txt) >= 10
SnippetTextTest(txt, title) == txt # <<>> /\ txt # title /\ Len(txt) >= SNIPPET_MIN_LEN

\* the test of the snippet loop on element e with text txt
SnippetTest(e, txt, title) ==
    e.name = "span" /\ e.class # {} /\ SnippetClassTest(e.class) /\ SnippetTextTest(txt, title)

RECURSIVE FindSnippet(_, _, _, _)
FindSnippetEl(d, j, steps, title, txt) ==
    IF SnippetTest(d[j], txt, title) THEN txt ELSE FindSnippet(d, j + 1, steps + 1, title)

\* the second loop of extract_card_from_time_span: the snippet, "" when the walk ends
FindSnippet(d, j, steps, title) ==
    IF j > Len(d) THEN <<>>
    ELSE IF d[j].kind = "text"
         THEN IF steps + d[j].n > WALK_STEPS THEN <<>>
              ELSE FindSnippet(d, j + 1, steps + d[j].n, title)
    ELSE IF steps + 1 > WALK_STEPS THEN <<>>
    ELSE FindSnippetEl(d, j, steps, title, get_text(d, j, <<" ">>))

NoCard == [found |-> FALSE, title |-> <<>>, link |-> <<>>, snippet |-> <<>>]

CardAt(d, a, title) ==
    [found |-> TRUE, title |-> title, link |-> d[a].href,
     snippet |-> FindSnippet(d, a + 1, 0, title)]

CardFrom(d, a) == IF a = 0 THEN NoCard ELSE CardAt(d, a, get_text(d, a, <<>>))

\* extract_card_from_time_span(span) for the marker at entry i; found = FALSE is None
extract_card_from_time_span(d, i) == CardFrom(d, FindAnchor(d, i + 1, 0))

-----------------------------------------------------------------------------
(* fetch_news: the scan of the markers *)

\* a break test that lets one more row through: len(rows) > max_n
CapExceeded(n, cap) == n > cap

\* the loop's break test
CapReached(n, cap) == n >= cap

\* a duplicate test that looks at the link key only
LinkOnlyDuplicate(link_norm, title_norm, links, titles) ==
    link_norm # <<>> /\ link_norm \in links

\* the duplicate test of the loop
IsDuplicate(link_norm, title_norm, links, titles) ==
    (link_norm # <<>> /\ link_norm \in links) \/ title_norm \in titles

\* a seen_links.add(link_norm) without the `if link_norm` guard
AddAnyLink(links, link_norm) == links \cup {link_norm}

\* `if link_norm: seen_links.add(link_norm)`
AddLink(links, link_norm) == IF link_norm # <<>> THEN links \cup {link_norm} ELSE links

\* a row that stores the normalized title instead of the card's title
MakeNormalizedRow(card, inc, q) ==
    [title |-> normalize_title(card.title), snippet |-> card.snippet, link |-> card.link,
     query |-> IF inc THEN q ELSE None]

\* the row built from a card
MakeRow(card, inc, q) ==
    [title |-> card.title, snippet |-> card.snippet, link |-> card.link,
     query |-> IF inc THEN q ELSE None]

\* the label of the marker at entry i: s.get_text(strip=True)
LabelOf(d, i) == get_text(d, i, <<>>)

\* the loop body from the duplicate test on
ScanCard(card, link_norm, title_norm) ==
    IF IsDuplicate(link_norm, title_norm, seen_links, seen_titles)
    THEN UNCHANGED <<rows, seen_titles, seen_links, emitted>>
    ELSE /\ seen_links' = AddLink(seen_links, link_norm)
         /\ seen_titles' = seen_titles \cup {title_norm}
         /\ rows' = Append(rows, MakeRow(card, include_query_col, query))
         /\ emitted' = Append(emitted, si)

\* the loop body from extract_card_from_time_span on
ScanExtract(card) ==
    IF ~card.found THEN UNCHANGED <<rows, seen_titles, seen_links, emitted>>
    ELSE ScanCard(card, normalize_link(card.link), normalize_title(card.title))

\* the loop body for the marker at entry i
ScanSpan(i) ==
    IF ~parse_relative_allowed(LabelOf(doc, i))
    THEN UNCHANGED <<rows, seen_titles, seen_links, emitted>>
    ELSE ScanExtract(extract_card_from_time_span(doc, i))

\* one iteration of `for s in spans` that does not break
ScanMarker ==
    /\ pc = "scan"
    /\ si <= Len(Spans(doc))
    /\ ~CapReached(Len(rows), max_n)
    /\ ScanSpan(Spans(doc)[si])
    /\ si' = si + 1
    /\ UNCHANGED <<link, keys, pc, session, resp, leaked, warm, queue, query, attempt,
                   outcome, slept, html, doc, max_n, include_query_col, results, raised>>

\* the loop ends (no marker left, or the break at the cap), then jitter_sleep and return rows
ScanEnd ==
    /\ pc = "scan"
    /\ (si > Len(Spans(doc)) \/ CapReached(Len(rows), max_n))
    /\ pc' = "returned"
    /\ results' = Append(results, [query |-> query, exhausted |-> FALSE, rows |-> rows])
    /\ UNCHANGED <<link, keys, session, resp, leaked, warm, queue, query, attempt, outcome, slept, html,
                   doc, max_n, include_query_col, si, rows, seen_titles, seen_links,
                   emitted, raised>>

-----------------------------------------------------------------------------
(* make_session, get_html and the run block *)

MAX_RETRY_DEFAULT == 2

\* what session.get can do: a response with status 200, a response with another
\* status, or an exception (timeout, connection error)
Outcomes == {"ok200", "status", "exception"}

\* r after session.get: a response object unless the call raised
RespAfterGet(o) == IF o = "exception" THEN "none" ELSE "open"

\* `if r is not None: r.close()` of the finally blocks
CloseResp(r) == IF r = "none" THEN "none" ELSE "closed"

\* r = None at the top of an attempt: a response still open there is never closed
Dropped(r) == IF r = "open" THEN 1 ELSE 0

\* an except clause that does not catch the exception of session.get
CaughtNothing(o) == o # "exception"

\* get_html's `except Exception`: the exception of session.get is caught
Caught(o) == TRUE

\* a session.close() placed at the end of the try body instead of in a finally
CloseOnSuccess(s, exc) == IF exc = "no" THEN "closed" ELSE s

\* the run block's finally: session.close(), whether or not an exception propagates
FinallyClose(s, exc) == "closed"

\* get_html's loop goes on to another attempt after attempt k
HasNextAttempt(k) == k < MAX_RETRY_DEFAULT

\* fetch_news's `if not html: return []`
NoDocument(h) == h = None \/ h = <<>>

\* the run block is entered: make_session creates the session
RunStart ==
    /\ pc = "idle"
    /\ session' = "open"
    /\ pc' = "warmup"
    /\ UNCHANGED <<link, keys, resp, leaked, warm, queue, query, attempt, outcome, slept, html, doc,
                   max_n, include_query_col, si, rows, seen_titles, seen_links, emitted,
                   results, raised>>

\* make_session's try: s.get(HOMEPAGE) and raise_for_status, any exception caught
WarmUp ==
    /\ pc = "warmup"
    /\ \E o \in Outcomes :
        /\ warm' = o
        /\ resp' = RespAfterGet(o)
    /\ pc' = "warm_finally"
    /\ UNCHANGED <<link, keys, session, leaked, queue, query, attempt, outcome, slept, html, doc, max_n,
                   include_query_col, si, rows, seen_titles, seen_links, emitted, results,
                   raised>>

\* make_session's finally, then the session is returned and the run's try is entered
WarmClose ==
    /\ pc = "warm_finally"
    /\ resp' = CloseResp(resp)
    /\ pc' = "queries"
    /\ UNCHANGED <<link, keys, session, leaked, warm, queue, query, attempt, outcome, slept, html, doc,
                   max_n, include_query_col, si, rows, seen_titles, seen_links, emitted,
                   results, raised>>

\* the next query of the run: fetch_news is called and calls get_html
NextQuery ==
    /\ pc = "queries"
    /\ queue # <<>>
    /\ query' = Head(queue).q
    /\ include_query_col' = Head(queue).col
    /\ attempt' = 1
    /\ slept' = <<>>
    /\ outcome' = None
    /\ html' = None
    /\ pc' = "attempt"
    /\ UNCHANGED <<link, keys, session, resp, leaked, warm, queue, doc, max_n, si, rows, seen_titles,
                   seen_links, emitted, results, raised>>

\* one attempt of get_html up to its finally: r = None, then session.get
Attempt(docs) ==
    /\ pc = "attempt"
    /\ \E o \in Outcomes :
        /\ outcome' = o
        /\ resp' = RespAfterGet(o)
        /\ IF o = "ok200" THEN \E h \in docs : html' = h ELSE html' = None
    /\ leaked' = leaked + Dropped(resp)
    /\ pc' = "attempt_finally"
    /\ UNCHANGED <<link, keys, session, warm, queue, query, attempt, slept, doc, max_n,
                   include_query_col, si, rows, seen_titles, seen_links, emitted, results,
                   raised>>

\* the finally of the attempt; a 200 returns the text, anything else goes on to the
\* sleep, an exception only because `except Exception` caught it
AttemptClose ==
    /\ pc = "attempt_finally"
    /\ resp' = CloseResp(resp)
    /\ pc' = IF outcome = "ok200" THEN "got_html"
             ELSE IF outcome = "exception" /\ ~Caught(outcome) THEN "finally"
             ELSE "backoff"
    /\ raised' = IF outcome = "exception" /\ ~Caught(outcome) THEN "transport" ELSE raised
    /\ UNCHANGED <<link, keys, session, leaked, warm, queue, query, attempt, outcome, slept,
                   html, doc, max_n, include_query_col, si, rows, seen_titles, seen_links,
                   emitted, results>>

\* time.sleep(RETRY_BACKOFF_BASE ** attempt) at the end of the loop body, then the
\* next attempt, or `return None` when the range is used up
Backoff ==
    /\ pc = "backoff"
    /\ slept' = Append(slept, attempt)
    /\ IF HasNextAttempt(attempt)
       THEN attempt' = attempt + 1 /\ pc' = "attempt" /\ html' = html
       ELSE attempt' = attempt /\ pc' = "got_html" /\ html' = None
    /\ UNCHANGED <<link, keys, session, resp, leaked, warm, queue, query, outcome, doc, max_n,
                   include_query_col, si, rows, seen_titles, seen_links, emitted, results,
                   raised>>

\* fetch_news after get_html: no document returns [], a document is parsed and scanned
Parse ==
    /\ pc = "got_html"
    /\ rows' = <<>>
    /\ seen_titles' = {}
    /\ seen_links' = {}
    /\ emitted' = <<>>
    /\ si' = 1
    /\ IF NoDocument(html)
       THEN /\ pc' = "returned"
            /\ results' = Append(results, [query |-> query, exhausted |-> html = None,
                                           rows |-> <<>>])
            /\ doc' = <<>>
       ELSE /\ pc' = "scan"
            /\ doc' = html
            /\ results' = results
    /\ UNCHANGED <<link, keys, session, resp, leaked, warm, queue, query, attempt, outcome, slept, html,
                   max_n, include_query_col, raised>>

\* the run block takes the rows (extend, or the market assignment) and moves on
Collect ==
    /\ pc = "returned"
    /\ queue # <<>>
    /\ queue' = Tail(queue)
    /\ pc' = "queries"
    /\ UNCHANGED <<link, keys, session, resp, leaked, warm, query, attempt, outcome, slept, html, doc,
                   max_n, include_query_col, si, rows, seen_titles, seen_links, emitted,
                   results, raised>>

\* no query left: the previews, build_workbook and the download button
Export ==
    /\ pc = "queries"
    /\ queue = <<>>
    /\ pc' = "finally"
    /\ UNCHANGED <<link, keys, session, resp, leaked, warm, queue, query, attempt, outcome, slept, html,
                   doc, max_n, include_query_col, si, rows, seen_titles, seen_links,
                   emitted, results, raised>>

\* the places of the try block where a statement outside get_html's own try can raise
RaisePoints == {"queries", "attempt", "backoff", "got_html", "scan", "returned"}

\* an unexpected exception inside the run's try block
Raise ==
    /\ pc \in RaisePoints
    /\ raised' = "unexpected"
    /\ pc' = "finally"
    /\ UNCHANGED <<link, keys, session, resp, leaked, warm, queue, query, attempt, outcome, slept, html,
                   doc, max_n, include_query_col, si, rows, seen_titles, seen_links,
                   emitted, results>>

\* the run block's finally
Finally ==
    /\ pc = "finally"
    /\ session' = FinallyClose(session, raised)
    /\ pc' = IF raised # "no" THEN "propagated" ELSE "done"
    /\ UNCHANGED <<link, keys, resp, leaked, warm, queue, query, attempt, outcome, slept, html, doc,
                   max_n, include_query_col, si, rows, seen_titles, seen_links, emitted,
                   results, raised>>

-----------------------------------------------------------------------------
(* normalize_link applied to a URL and again to its own result *)

Normalize ==
    /\ pc = "link"
    /\ Len(keys) < 2
    /\ keys' = Append(keys, normalize_link(IF keys = <<>> THEN link ELSE keys[Len(keys)]))
    /\ UNCHANGED <<pc, session, resp, leaked, warm, queue, query, attempt, outcome, slept,
                   html, doc, max_n, include_query_col, si, rows, seen_titles, seen_links,
                   emitted, results, raised, link>>

-----------------------------------------------------------------------------
(* Inputs *)

\* the most cards of a document
MaxCards == 3
\* the largest cap max_n
MaxN == 2
\* the most client queries, and the most custom queries, of a run
MaxQueries == 1
\* the longest run of spaces inside a label
MaxWs == 1

RECURSIVE Flatten(_)
Flatten(ss) == IF ss = <<>> THEN <<>> ELSE ss[1] \o Flatten(Tail(ss))

\* the documents made of 1..n blocks of the set blocks
DocsOf(blocks, n) == UNION {{Flatten(f) : f \in [1..k -> blocks]} : k \in 1..n}

Spaces(n) == [k \in 1..n |-> " "]

LabelOk    == <<"5", "bun", " ", "jeon">>
LabelStale == <<"2", "il", " ", "jeon">>

TitleAb  == <<"A", " ", "b">>
TitleAb2 == <<"a", " ", " ", "B">>
TitleC   == <<"c">>

LinkA  == <<"https", ":", "/", "/", "ex", ".", "com", "/", "a", "?", "utm_source", "=", "x">>
LinkA2 == <<"HTTPS", ":", "/", "/", "Ex", ".", "com", "/", "a", "/">>
LinkB  == <<"https", ":", "/", "/", "ex", ".", "com", "/", "b">>

SnippetOk    == <<"s", "n", "i", "p", "p", "e", "t", " ", "o", "k">>
SnippetShort == <<"t", "o", "o", " ", "s", "h", "o", "r", "t">>

TitleSpanClass == {"sds-comps-text", "sds-comps-text-ellipsis", "sds-comps-text-type-headline1"}
BothClasses    == {"sds-comps-text", "sds-comps-text-ellipsis", "sds-comps-text-type-body2"}
BodyOnly       == {"sds-comps-text", "sds-comps-text-type-body2"}
EllipsisOnly   == {"sds-comps-text", "sds-comps-text-ellipsis", "sds-comps-text-type-body1"}
OtherClass     == {"sds-comps-text", "sds-comps-text-type-body1"}

\* a timestamp marker with its label
TimeSpan(label) == <<El("span", TIME_SPAN_CLASS, "", <<>>, 1), Text(label, 1)>>

\* a title anchor: <a data-heatmap-target=".tit" href=...><span class=...>title</span></a>
Anchor(title, href) ==
    <<El("a", {}, ".tit", href, 2), El("span", TitleSpanClass, "", <<>>, 1), Text(title, 1)>>

\* an element with one text child
Leaf(name, class, text) == <<El(name, class, "", <<>>, 1), Text(text, 1)>>

\* n whitespace text nodes
Filler(n) == IF n = 0 THEN <<>> ELSE <<Text(<<" ">>, n)>>

\* the cards of the documents the scan is checked on
FetchCards ==
    {<<TitleAb, <<>> >>, <<TitleAb, LinkA2>>, <<TitleAb2, <<>> >>, <<TitleC, <<>> >>,
     <<TitleC, LinkA>>}

FetchBlocks ==
    {TimeSpan(LabelOk) \o Anchor(c[1], c[2]) \o Leaf("span", BothClasses, SnippetOk) :
        c \in FetchCards}
    \cup {TimeSpan(LabelStale) \o Anchor(TitleAb, LinkA) \o Leaf("span", BothClasses, SnippetOk),
          TimeSpan(LabelOk) \o Leaf("span", BothClasses, SnippetOk)}

FetchDocs == DocsOf(FetchBlocks, MaxCards)

\* the labels the recency filter is checked on
Labels ==
    {lead \o num \o w1 \o unit \o w2 \o tail \o trail :
        lead \in {<<>>, <<" ">>},
        num \in {<<a>> : a \in Digits} \cup {<<a, b>> : a \in Digits, b \in Digits}
                \cup {<<"1", "0", "0">>, <<"5", " ", "9">>},
        w1 \in {Spaces(n) : n \in 0..MaxWs} \cup {<<"tab">>},
        unit \in {<<"bun">>, <<"si", "gan">>, <<"il">>, <<"si">>, <<>>},
        w2 \in {Spaces(n) : n \in 0..MaxWs} \cup {<<"tab">>},
        tail \in {<<"jeon">>, <<>>, <<"jeon", "x">>},
        trail \in {<<>>, <<" ">>}}

LabelDocs == {TimeSpan(l) \o Anchor(TitleC, LinkB) : l \in Labels}

\* the filler lengths around the ends of the two walks
FillerSizes == {0, WALK_STEPS - 5, WALK_STEPS - 4, WALK_STEPS - 3, WALK_STEPS - 2}

\* the nodes that may follow the title anchor
Candidates ==
    {Leaf(name, class, text) :
        name \in {"span", "div"},
        class \in {BothClasses, BodyOnly, EllipsisOnly, OtherClass, {}},
        text \in {SnippetOk, SnippetShort, TitleC, <<" ">>}}

CardDocs ==
    {TimeSpan(LabelOk) \o Filler(f1) \o Anchor(TitleC, LinkB) \o Filler(f2) \o c1 \o c2 :
        f1 \in {0, WALK_STEPS - 2, WALK_STEPS - 1}, f2 \in FillerSizes,
        c1 \in Candidates, c2 \in {<<>>, Leaf("span", BothClasses, SnippetOk)}}

\* the documents a request of the run can return; <<>> is the empty body
RunDocs == {<<>>,
            TimeSpan(LabelOk) \o Anchor(TitleC, LinkB) \o Leaf("span", BothClasses, SnippetOk),
            TimeSpan(LabelOk) \o Anchor(TitleAb, LinkA) \o TimeSpan(LabelOk) \o Anchor(TitleC, <<>>)}

LinkInputs ==
    {<<>>} \cup
    {scheme \o host \o path \o qstr \o frag :
        scheme \in {<<>>, <<"https", ":">>, <<"HTTP", ":">>},
        host \in {<<>>, <<"/", "/", "ex", ".", "com">>, <<"/", "/", "Ex", ".", "com">>,
                  <<"/", "/", "news", ".", "naver", ".", "com">>,
                  <<"/", "/", "n", ".", "News", ".", "naver", ".", "com">>,
                  <<"/", "/", "[", "ex">>},
        path \in {<<>>, <<"/">>, <<"/", "a">>, <<"/", "a", "/">>},
        qstr \in {<<>>, <<"?", "id", "=", "5">>,
                  <<"?", "utm_source", "=", "x", "&", "id", "=", "5">>,
                  <<"?", "oid", "=", "1", "&", "aid", "=", "2">>,
                  <<"?", "aid", "=", "2", "&", "utm_source", "=", "x", "&", "oid", "=", "1">>,
                  <<"?", "oid", "=", "1">>,
                  <<"?", "b", "=", "2", "&", "a", "=", "x", "&", "b", "=", "1">>},
        frag \in {<<>>, <<"#", "x">>}}

\* the queries of a run: the client queries, then the custom ones, then the market query
Queues ==
    {[k \in 1..nc |-> [q |-> "client", col |-> TRUE]]
     \o [k \in 1..nu |-> [q |-> "custom", col |-> TRUE]]
     \o (IF m THEN <<[q |-> "market", col |-> FALSE]>> ELSE <<>>) :
        nc \in 0..MaxQueries, nu \in 0..MaxQueries, m \in BOOLEAN}

-----------------------------------------------------------------------------
(* Specifications *)

\* fetch_news right after BeautifulSoup(html) on document d
ScanStart(d) ==
    /\ pc = "scan"
    /\ session = "open" /\ resp = "closed" /\ leaked = 0 /\ warm = "ok200"
    /\ queue = <<>> /\ query = "client" /\ attempt = 1 /\ outcome = "ok200" /\ slept = <<>>
    /\ html = d /\ doc = d
    /\ si = 1 /\ rows = <<>> /\ seen_titles = {} /\ seen_links = {} /\ emitted = <<>>
    /\ results = <<>> /\ raised = "no" /\ link = <<>> /\ keys = <<>>

\* the run: the button is pressed with some queries and a cap
Init ==
    /\ pc = "idle"
    /\ session = "none" /\ resp = "none" /\ leaked = 0 /\ warm = None
    /\ queue \in Queues /\ query = None /\ attempt = 0 /\ outcome = None /\ slept = <<>>
    /\ html = None /\ doc = <<>> /\ max_n \in 1..MaxN /\ include_query_col = TRUE
    /\ si = 1 /\ rows = <<>> /\ seen_titles = {} /\ seen_links = {} /\ emitted = <<>>
    /\ results = <<>> /\ raised = "no" /\ link = <<>> /\ keys = <<>>

Next ==
    \/ RunStart \/ WarmUp \/ WarmClose \/ NextQuery \/ Attempt(RunDocs) \/ AttemptClose
    \/ Backoff \/ Parse \/ ScanMarker \/ ScanEnd \/ Collect \/ Export \/ Raise \/ Finally

Spec == Init /\ [][Next]_vars

\* fetch_news on every document of FetchDocs
InitFetch == \E d \in FetchDocs : ScanStart(d) /\ max_n \in 1..MaxN /\ include_query_col \in BOOLEAN

NextFetch == ScanMarker \/ ScanEnd

SpecFetch == InitFetch /\ [][NextFetch]_vars

\* fetch_news on a document with one marker, for every label
InitLabel == \E d \in LabelDocs : ScanStart(d) /\ max_n = 1 /\ include_query_col = TRUE

SpecLabel == InitLabel /\ [][NextFetch]_vars

\* fetch_news on a document with one marker and the nodes around its card
InitCard == \E d \in CardDocs : ScanStart(d) /\ max_n = 1 /\ include_query_col = TRUE

SpecCard == InitCard /\ [][NextFetch]_vars

\* normalize_link on every URL of LinkInputs
InitLink ==
    /\ pc = "link" /\ link \in LinkInputs /\ keys = <<>>
    /\ session = "none" /\ resp = "none" /\ leaked = 0 /\ warm = None
    /\ queue = <<>> /\ query = None /\ attempt = 0 /\ outcome = None /\ slept = <<>>
    /\ html = None /\ doc = <<>> /\ max_n = 1 /\ include_query_col = TRUE
    /\ si = 1 /\ rows = <<>> /\ seen_titles = {} /\ seen_links = {} /\ emitted = <<>>
    /\ results = <<>> /\ raised = "no"

NextLink == Normalize

SpecLink == InitLink /\ [][NextLink]_vars

-----------------------------------------------------------------------------
(* Properties of the scan *)

\* the marker numbers of the document
Markers == 1..Len(Spans(doc))

\* the card of marker k
CardOf(k) == extract_card_from_time_span(doc, Spans(doc)[k])

\* marker k has an accepted label and a card
Carded(k) == parse_relative_allowed(LabelOf(doc, Spans(doc)[k])) /\ CardOf(k).found

TitleKey(k) == normalize_title(CardOf(k).title)
LinkKey(k)  == normalize_link(CardOf(k).link)

Emitted == Range(emitted)

RowTitleKey(r) == normalize_title(r.title)
RowLinkKey(r)  == normalize_link(r.link)

\* no two rows share a title key or a non-empty link key
DistinctKeys ==
    \A a, b \in 1..Len(rows) :
        a # b => /\ RowTitleKey(rows[a]) # RowTitleKey(rows[b])
                 /\ RowLinkKey(rows[a]) # <<>> => RowLinkKey(rows[a]) # RowLinkKey(rows[b])

\* markers i and j both have cards, with the same title key
SameTitle(i, j) == Carded(i) /\ Carded(j) /\ TitleKey(i) = TitleKey(j)

\* the markers i < j that both have cards, with the same title key
SameTitlePairs == {p \in Markers \X Markers : p[1] < p[2] /\ SameTitle(p[1], p[2])}

\* C1 as stated: no two rows share a normalize_title key or a non-empty normalize_link
\* key, and of two markers whose cards have equal title keys only the first is emitted
\* (the second never is)
C1_OnlyFirstEmitted ==
    /\ DistinctKeys
    /\ \A p \in SameTitlePairs : p[2] \notin Emitted

\* C1 as amended: no two rows share a normalize_title key or a non-empty normalize_link
\* key, and of two markers whose cards have equal title keys at most one is emitted,
\* the second never when the first was
C1_DistinctKeys ==
    /\ DistinctKeys
    /\ \A i, j \in Emitted : i < j => ~SameTitle(i, j)

\* two markers whose titles differ in case and spacing only: the first was emitted and
\* the second, scanned too, was dropped
C1_Witness ==
    /\ pc = "returned"
    /\ \E p \in SameTitlePairs :
        /\ CardOf(p[1]).title # CardOf(p[2]).title
        /\ p[1] \in Emitted /\ p[2] \notin Emitted /\ p[2] < si

RECURSIVE EligibleFrom(_, _, _, _)
\* the loop of fetch_news without its cap, from marker k on: the rows of the eligible
\* markers (label accepted, card extracted, no duplicate of an earlier emitted row)
EligibleNext(d, k, links, titles, card) ==
    IF ~parse_relative_allowed(LabelOf(d, Spans(d)[k])) \/ ~card.found
       \/ (normalize_link(card.link) # <<>> /\ normalize_link(card.link) \in links)
       \/ normalize_title(card.title) \in titles
    THEN EligibleFrom(d, k + 1, links, titles)
    ELSE <<[title |-> card.title, snippet |-> card.snippet, link |-> card.link,
            query |-> IF include_query_col THEN query ELSE None]>>
         \o EligibleFrom(d, k + 1, links \cup {normalize_link(card.link)},
                         titles \cup {normalize_title(card.title)})

EligibleFrom(d, k, links, titles) ==
    IF k > Len(Spans(d)) THEN <<>>
    ELSE EligibleNext(d, k, links, titles, extract_card_from_time_span(d, Spans(d)[k]))

CapHolds(eligible) ==
    /\ Len(rows) <= max_n
    /\ (pc = "returned" /\ Len(eligible) > max_n) => rows = SubSeq(eligible, 1, max_n)

\* C2: fetch_news never returns more than max_n rows, and a document with more than
\* max_n eligible markers yields exactly the rows of the first max_n of them
C2_Cap == CapHolds(EligibleFrom(doc, 1, {}, {}))

\* a document with more eligible markers than the cap, scanned up to the cap
C2_Witness ==
    /\ pc = "returned"
    /\ Len(EligibleFrom(doc, 1, {}, {})) > max_n
    /\ Len(rows) = max_n
    /\ si <= Len(Spans(doc))

\* C3: the rows are in the document order of their markers (an order-preserving
\* subsequence of the markers' cards), each with the card's own title, snippet and link
C3_DocumentOrder ==
    /\ Len(emitted) = Len(rows)
    /\ \A k \in 1..Len(emitted) :
        /\ emitted[k] \in Markers
        /\ k > 1 => emitted[k - 1] < emitted[k]
        /\ rows[k].title = CardOf(emitted[k]).title
        /\ rows[k].snippet = CardOf(emitted[k]).snippet
        /\ rows[k].link = CardOf(emitted[k]).link

\* two rows with a skipped marker between them, one with a title and a link that
\* differ from their keys
C3_Witness ==
    /\ pc = "returned"
    /\ Len(rows) >= 2
    /\ emitted[2] > emitted[1] + 1
    /\ \E k \in 1..Len(rows) :
        rows[k].title # RowTitleKey(rows[k]) /\ rows[k].link # RowLinkKey(rows[k])

\* marker k was dropped as a duplicate only with cause: an earlier emitted marker has
\* its title key or its non-empty link key
DroppedWithCause(k) ==
    \E e \in Emitted :
        /\ e < k
        /\ \/ TitleKey(e) = TitleKey(k)
           \/ LinkKey(k) # <<>> /\ LinkKey(e) = LinkKey(k)

\* C10: an empty link key never collides (a card with an empty link is dropped only for
\* its title), a card is dropped as a duplicate only if an earlier emitted row has its
\* title key or its non-empty link key, and the seen-sets hold the keys of the emitted
\* rows only
C10_EmptyLinkNoCollision ==
    /\ seen_titles = {RowTitleKey(rows[k]) : k \in 1..Len(rows)}
    /\ seen_links = {RowLinkKey(rows[k]) : k \in 1..Len(rows)} \ {<<>>}
    /\ \A k \in Markers :
        (k < si /\ Carded(k) /\ k \notin Emitted) => DroppedWithCause(k)

\* two cards with empty links and different titles both emitted, and a third with an
\* empty link dropped for its title
C10_Witness ==
    /\ pc = "returned"
    /\ \E a, b, c \in Markers :
        /\ a < b /\ c < si /\ c \notin {a, b}
        /\ Carded(a) /\ Carded(b) /\ Carded(c)
        /\ LinkKey(a) = <<>> /\ LinkKey(b) = <<>> /\ LinkKey(c) = <<>>
        /\ a \in Emitted /\ b \in Emitted /\ c \notin Emitted

-----------------------------------------------------------------------------
(* Properties of the recency filter *)

DigitSym == <<"0", "1", "2", "3", "4", "5", "6", "7", "8", "9">>

\* the decimal numeral of x in 0..99, without leading zero
Dec(x) == IF x < 10 THEN <<DigitSym[x + 1]>> ELSE <<DigitSym[(x \div 10) + 1], DigitSym[(x % 10) + 1]>>

\* the label text of the one marker of a document of LabelDocs, as written
RawLabel == doc[2].text

\* t is the numeral of some x in 1..hi, the unit, one space, "jeon"
ExactShape(t, unit, hi) == \E x \in 1..hi : t = Dec(x) \o unit \o <<" ", "jeon">>

\* after the numeral num: whitespace or none, the unit, whitespace or none, "jeon"
LooseAfter(t, a, unit) ==
    \E m \in 0..Len(t) :
        /\ WsRe(Slice(t, a + 1, a + m))
        /\ Slice(t, a + m + 1, a + m + Len(unit)) = unit
        /\ WsRe(Slice(t, a + m + Len(unit) + 1, Len(t) - 1))
        /\ Len(t) > a + m + Len(unit)
        /\ t[Len(t)] = "jeon"

StartsWith(t, num) == Slice(t, 1, Len(num)) = num

\* t is the numeral of some x in 1..hi, whitespace or none, the unit, whitespace or
\* none, "jeon"
LooseShape(t, unit, hi) ==
    \E x \in 1..hi : StartsWith(t, Dec(x)) /\ LooseAfter(t, Len(Dec(x)), unit)

ExactLabel(t) == ExactShape(t, <<"bun">>, 59) \/ ExactShape(t, <<"si", "gan">>, 23)
LooseLabel(t) == LooseShape(t, <<"bun">>, 59) \/ LooseShape(t, <<"si", "gan">>, 23)

\* C7 as stated: a label is accepted exactly when, trimmed, it is "X bun jeon" with X in
\* 1..59 or "X sigan jeon" with X in 1..23, written with the one space before "jeon";
\* a marker with a rejected label produces no row
C7_ExactShape ==
    pc = "returned" => (Len(rows) = 1 <=> ExactLabel(Strip(RawLabel)))

\* C7 as amended: a label is accepted exactly when, trimmed, it is X, optional
\* whitespace, the unit, optional whitespace, "jeon", with X in 1..59 for minutes and
\* 1..23 for hours; 59 minutes and 23 hours are accepted, 60 and 0 minutes, 24 hours
\* and 1 day are not; a marker with a rejected label produces no row
C7_RecencyShape ==
    /\ pc = "returned" => (Len(rows) = 1 <=> LooseLabel(Strip(RawLabel)))
    /\ pc = "returned" => (rows = <<>> <=> ~parse_relative_allowed(RawLabel))
    /\ (pc = "returned" /\ RawLabel \in {<<"5", "9", "bun", " ", "jeon">>,
                                         <<"2", "3", "si", "gan", " ", "jeon">>})
          => Len(rows) = 1
    /\ (pc = "returned" /\ RawLabel \in {<<"6", "0", "bun", " ", "jeon">>,
                                         <<"0", "bun", " ", "jeon">>,
                                         <<"2", "4", "si", "gan", " ", "jeon">>,
                                         <<"1", "il", " ", "jeon">>})
          => rows = <<>>

\* the marker labelled 59 minutes was scanned and produced its row
C7_Witness ==
    /\ pc = "returned"
    /\ RawLabel = <<"5", "9", "bun", " ", "jeon">>
    /\ Len(rows) = 1

-----------------------------------------------------------------------------
(* Properties of the card extractor *)

RECURSIVE StepsTo(_, _, _)
\* the steps the walk from entry a has taken when it reaches entry j
StepsTo(d, a, j) == IF j <= a THEN 0 ELSE StepsTo(d, a, j - 1) + (IF d[j].kind = "text" THEN d[j].n ELSE 1)

\* the entries after a that qualify as the snippet, Test the test on the class attribute
SnippetCandidates(d, a, title, Test(_)) ==
    {j \in (a + 1)..Len(d) :
        /\ d[j].kind = "el" /\ d[j].name = "span"
        /\ StepsTo(d, a, j) <= WALK_STEPS
        /\ Test(d[j].class)
        /\ Strip(get_text(d, j, <<" ">>)) # <<>>
        /\ get_text(d, j, <<" ">>) # title
        /\ Len(get_text(d, j, <<" ">>)) >= 10}

Lowest(S) == CHOOSE j \in S : \A k \in S : j <= k

\* the text of the first candidate, empty when there is none
FirstText(d, S) == IF S = {} THEN <<>> ELSE get_text(d, Lowest(S), <<" ">>)

BothTest(class) == SNIPPET_CLASSES \subseteq class
AnyTest(class)  == class \cap SNIPPET_CLASSES # {}

\* the title anchors after the marker at entry i within the walk's steps
AnchorCandidates(d, i) ==
    {j \in (i + 1)..Len(d) :
        d[j].kind = "el" /\ d[j].name = "a" /\ d[j].target = ".tit" /\ StepsTo(d, i, j) <= WALK_STEPS}

\* the row of the one marker, when its anchor is within reach, has as snippet the first
\* candidate after the anchor under the class test Test; without such a node the row is
\* there with an empty snippet; without anchor there is no row
SnippetIs(d, A, Test(_)) ==
    IF A = {} THEN rows = <<>>
    ELSE /\ Len(rows) = 1
         /\ rows[1].title = get_text(d, Lowest(A), <<>>)
         /\ rows[1].snippet = FirstText(d, SnippetCandidates(d, Lowest(A), rows[1].title, Test))

\* C8 as stated: the snippet is the text of the first node within 200 steps of the title
\* anchor, counted from the anchor, that carries both snippet classes and whose trimmed
\* text is non-empty, not the title and at least 10 long; else the snippet is empty and
\* the card is still returned
C8_BothClasses == pc = "returned" => SnippetIs(doc, AnchorCandidates(doc, Spans(doc)[1]), BothTest)

\* C8 as amended: the same with "carries at least one of the two snippet classes" and
\* the node a span element; a span with only one of the two classes is taken
C8_Snippet == pc = "returned" => SnippetIs(doc, AnchorCandidates(doc, Spans(doc)[1]), AnyTest)

\* a span with only one of the snippet classes, out of reach of the marker's own walk,
\* was taken as the snippet
C8_Witness ==
    /\ pc = "returned"
    /\ Len(rows) = 1
    /\ rows[1].snippet = SnippetOk
    /\ \E j \in 1..Len(doc) :
        /\ doc[j].class = EllipsisOnly
        /\ StepsTo(doc, Spans(doc)[1], j) > WALK_STEPS
        /\ SnippetCandidates(doc, Lowest(AnchorCandidates(doc, Spans(doc)[1])), TitleC, AnyTest) = {j}

\* the walk ended without a snippet and the card was returned with an empty one
C8_WitnessEmpty ==
    /\ pc = "returned"
    /\ Len(rows) = 1
    /\ rows[1].snippet = <<>>

-----------------------------------------------------------------------------
(* Properties of normalize_link *)

\* C6: normalize_link(normalize_link(u)) = normalize_link(u) for every URL string u
C6_Idempotent == Len(keys) = 2 => keys[2] = keys[1]

-----------------------------------------------------------------------------
(* Properties of the transport and of the run *)

\* C9: at most MAX_RETRY_DEFAULT attempts, numbered from 1; a 200 ends the loop at once
\* with no sleep after it; after the failed attempt k the sleep is base^k; and a sleep
\* occurs only when another attempt follows, none after the last failed attempt
C9_RetryPolicy ==
    /\ attempt <= MAX_RETRY_DEFAULT
    /\ \A k \in 1..Len(slept) : slept[k] = k
    /\ pc = "got_html" => Len(slept) = attempt - 1

\* the queries of the queues a run can start with
QueueNames == {[k \in 1..Len(qs) |-> qs[k].q] : qs \in Queues}

\* the queries fetch_news has returned for
Finished == [k \in 1..Len(results) |-> results[k].query]

\* the queries still to be fetched, the one being fetched included
Pending == IF pc = "returned" THEN Tail(queue) ELSE queue

\* C4: when every attempt fails (a status other than 200, or an exception), get_html
\* returns None and fetch_news returns the empty list; nothing of it is raised to the
\* run block, which goes on with the next query
C4_NoDocument ==
    /\ raised # "transport"
    /\ (pc = "got_html" /\ outcome # "ok200") => (html = None /\ attempt = MAX_RETRY_DEFAULT)
    /\ (pc = "returned" /\ html = None) => rows = <<>>
    /\ \A k \in 1..Len(results) : results[k].exhausted => results[k].rows = <<>>
    /\ raised = "no" => Finished \o [k \in 1..Len(Pending) |-> Pending[k].q] \in QueueNames
    /\ pc = "done" => queue = <<>>

\* a run that ended normally: its first query ran out of attempts and its second
\* brought rows
C4_Witness ==
    /\ pc = "done"
    /\ Len(results) >= 2
    /\ results[1].exhausted /\ results[1].rows = <<>>
    /\ ~results[2].exhausted /\ results[2].rows # <<>>

\* C5: no response is ever dropped open; a response is open only between the request
\* and the finally of the same attempt, so it is closed before the next attempt or
\* the return; the session exists from the entry of the run block on, and on every way
\* out of the run block, normal or by an exception, it has been closed
C5_Released ==
    /\ leaked = 0
    /\ resp = "open" => pc \in {"warm_finally", "attempt_finally"}
    /\ session = "none" <=> pc = "idle"
    /\ pc \in {"done", "propagated"} <=> session = "closed"

\* an exception went out of the run block after a query had run out of attempts, and
\* the session was closed
C5_Witness ==
    /\ pc = "propagated"
    /\ session = "closed"
    /\ \E k \in 1..Len(results) : results[k].exhausted

=============================================================================
